---------------------------- MODULE Spec2Model ----------------------------
(***************************************************************************)
(* A model of ai/tensorflow/hive_lib.py of hiveGo: the segmented           *)
(* log-softmax and its loss, the parity-aware hexagonal convolution with   *)
(* its residual layer, the skip-connection feed-forward builder and the    *)
(* variable store the builders allocate their weights in.                  *)
(*                                                                         *)
(* Float tensors are modelled in fixed point: a value v stands for the     *)
(* real v / ONE, ONE = 2^24 being the resolution of a float32 significand. *)
(* Additions, subtractions and comparisons are exact, products, quotients, *)
(* exp and log round to the nearest unit.  PosInf, NegInf stand for the    *)
(* float infinities.                                                       *)
(***************************************************************************)
EXTENDS Integers, Sequences, FiniteSets, TLC

VARIABLES
    logits,     \* sparse_log_soft_max's argument: the scores, shape [N]
    indices,    \* sparse_log_soft_max's argument: the group of each score
    sm,         \* the tensors sparse_log_soft_max built, or None
    store,      \* the variables of the graph, in the order of their creation
    hexagonal_map,  \* the input grid of the hexagonal builders, [B, H, W, C]
    hx,         \* what the last builder call returned (graph nodes), or None
    got,        \* the tensors the session evaluated for hx, or None
    calls,      \* the number of builder calls of the graph-building pass
    steps,      \* the number of steps the optimizer has taken
    labels,     \* sparse_cross_entropy_loss's argument: the label of each item
    loss,       \* the tensor sparse_cross_entropy_loss returned, <<>> before
    board_raw_predictions,  \* sigmoid_to_max's argument x, shape [N]
    board_predictions       \* the tensors sigmoid_to_max built, or None

smVars == <<logits, indices, sm>>
hexVars == <<store, hexagonal_map, hx, got>>
passVars == <<calls, steps>>
headVars == <<labels, loss, board_raw_predictions, board_predictions>>
vars == <<logits, indices, sm, store, hexagonal_map, hx, got, calls, steps, labels, loss, board_raw_predictions, board_predictions>>

None == [kind |-> "none"]

(***************************************************************************)
(* Bounds of the model.                                                    *)
(***************************************************************************)
MaxItems == 3
MaxGroupId == 2

(***************************************************************************)
(* Fixed-point arithmetic standing for float32.                            *)
(***************************************************************************)
ONE == 2^24
SPLIT == 2^12
PosInf == 2^30
NegInf == -(2^30)

Abs(x) == IF x < 0 THEN -x ELSE x

IsFinite(x) == x > NegInf /\ x < PosInf

\* a * b / ONE rounded to the nearest unit, for 0 <= a, b, computed on the
\* halves of the operands so that no intermediate leaves 32 bits.
MulFix(a, b) ==
    LET a1 == a \div SPLIT
        a0 == a % SPLIT
        b1 == b \div SPLIT
        b0 == b % SPLIT
    IN  a1 * b1 + ((a1 * b0 + a0 * b1) + ((a0 * b0 + ONE \div 2) \div SPLIT)) \div SPLIT

\* (x + n/2) / n: division by a small positive integer, rounded.
DivInt(x, n) == (x + n \div 2) \div n

RECURSIVE LongDiv(_, _, _, _)
LongDiv(rem, d, q, bits) ==
    IF bits = 0
    THEN IF 2 * rem >= d THEN q + 1 ELSE q
    ELSE IF 2 * rem >= d
         THEN LongDiv(2 * rem - d, d, 2 * q + 1, bits - 1)
         ELSE LongDiv(2 * rem, d, 2 * q, bits - 1)

\* n / d in fixed point, for 0 <= n < d < 2^30.
DivFix(n, d) == LongDiv(n, d, 0, 24)

\* exp(f) for 0 <= f <= ONE: the Taylor series, until a term rounds to 0.
RECURSIVE ExpSeries(_, _, _, _)
ExpSeries(f, term, n, acc) ==
    LET next == DivInt(MulFix(term, f), n)
    IN  IF next = 0 THEN acc ELSE ExpSeries(f, next, n + 1, acc + next)

ExpFrac(f) == ExpSeries(f, ONE, 1, ONE)

EFix == ExpFrac(ONE)
EInv == DivFix(ONE, EFix)

RECURSIVE ExpScale(_, _)
ExpScale(r, k) ==
    IF k = 0 \/ r = 0 THEN r
    ELSE IF k < 0 THEN ExpScale(MulFix(r, EInv), k + 1)
    ELSE IF r >= 2^26 THEN PosInf
    ELSE ExpScale(MulFix(r, EFix), k - 1)

\* tf.exp: exp(x) = exp(x mod 1) * e^floor(x).
FExp(x) ==
    IF x = NegInf THEN 0
    ELSE IF x = PosInf THEN PosInf
    ELSE ExpScale(ExpFrac(x % ONE), x \div ONE)

\* atanh(z) = z + z^3/3 + z^5/5 + ..., until a term rounds to 0.
RECURSIVE AtanhSeries(_, _, _, _)
AtanhSeries(z2, pow, n, acc) ==
    LET next == MulFix(pow, z2)
    IN  IF next = 0 THEN acc
        ELSE AtanhSeries(z2, next, n + 2, acc + DivInt(next, n))

Atanh(z) == AtanhSeries(MulFix(z, z), z, 3, z)

\* log(2) = 2 atanh(1/3).
Ln2 == 2 * Atanh(DivFix(ONE, 3 * ONE))

\* log(y) for y = 2^m r, p <= r p < 2 p: m log(2) + 2 atanh((r - 1) / (r + 1)).
RECURSIVE LogReduce(_, _, _)
LogReduce(y, p, m) ==
    IF y >= 2 * p THEN LogReduce(y, 2 * p, m + 1)
    ELSE IF y < p THEN LogReduce(2 * y, p, m - 1)
    ELSE m * Ln2 + 2 * Atanh(DivFix(y - p, y + p))

\* tf.log
FLog(y) ==
    IF y <= 0 THEN NegInf
    ELSE IF y >= PosInf THEN PosInf
    ELSE LogReduce(y, ONE, 0)

\* a - b on floats.
FSub(a, b) ==
    IF a = PosInf \/ b = NegInf THEN PosInf
    ELSE IF a = NegInf \/ b = PosInf THEN NegInf
    ELSE a - b

(***************************************************************************)
(* sparse_log_soft_max                                                     *)
(***************************************************************************)
Items(xs) == 1..Len(xs)

RECURSIVE SeqMax(_, _)
SeqMax(xs, i) ==
    IF i = Len(xs) THEN xs[i]
    ELSE LET rest == SeqMax(xs, i + 1) IN IF xs[i] > rest THEN xs[i] ELSE rest

\* tf.math.reduce_max(indices) + 1
batch_size(idx) == SeqMax(idx, 1) + 1

GroupIds(idx) == 0..(batch_size(idx) - 1)

Members(idx, g) == {i \in Items(idx) : idx[i] = g}

SetMax(S) == CHOOSE x \in S : \A y \in S : y <= x

\* A dense reduction of the [batch_size, N] layout, whose cells without an
\* item read 0.
dense_reduce_max(xs, idx, g) ==
    LET present == {xs[i] : i \in Members(idx, g)}
        cells == IF Cardinality(Members(idx, g)) < Len(xs)
                 THEN present \cup {0} ELSE present
    IN  SetMax(cells)

\* The maximum of the whole score array, whatever the row.
global_reduce_max(xs, idx, g) == SeqMax(xs, 1)

\* A segment maximum that takes the items of a group to be contiguous: the
\* maximum of the first run of items of group g.
segment_reduce_max(xs, idx, g) ==
    IF Members(idx, g) = {} THEN 0
    ELSE SetMax({xs[m] : m \in {m \in Members(idx, g) :
                    \A j \in Items(idx) :
                        (\E f \in Members(idx, g) : f <= j) /\ j <= m
                            => idx[j] = g}})

\* tf.sparse_reduce_max over the item axis of row g of the sparse
\* [batch_size, N] tensor: the maximum of the values present in the row,
\* and 0 for a row that holds none.
sparse_reduce_max(xs, idx, g) ==
    IF Members(idx, g) = {} THEN 0
    ELSE SetMax({xs[i] : i \in Members(idx, g)})

RECURSIVE SumOver(_, _)
SumOver(f, S) ==
    IF S = {} THEN 0
    ELSE LET i == CHOOSE j \in S : TRUE IN f[i] + SumOver(f, S \ {i})

\* The array f as a sequence of its values, each computed once.
AsSeq(f) == SubSeq(f, 1, Len(f))

\* The group ids renumbered in their order, without the ids no item carries.
Compacted(idx) ==
    AsSeq([i \in Items(idx) |->
        Cardinality({g \in GroupIds(idx) : g < idx[i] /\ Members(idx, g) # {}})])

\* A scatter into the cells of the renumbered groups.
scatter_nd_compacted(idx, updates, g) ==
    SumOver(updates, Members(Compacted(idx), g))

\* A scatter that overwrites: the last update of a cell wins.
scatter_nd_update(idx, updates, g) ==
    IF Members(idx, g) = {} THEN 0
    ELSE updates[SetMax(Members(idx, g))]

\* tf.manip.scatter_nd(indices, updates, shape=[batch_size]): cell g is the
\* sum of the updates whose index is g, and 0 when there is none.
scatter_nd(idx, updates, g) == SumOver(updates, Members(idx, g))

sparse_log_soft_max(xs, idx) ==
    LET row_max == [g \in GroupIds(idx) |-> sparse_reduce_max(xs, idx, g)]
        logits_max == [i \in Items(xs) |-> row_max[idx[i]]]
        normalized_logits == [i \in Items(xs) |-> FSub(xs[i], logits_max[i])]
        normalized_exp_values == [i \in Items(xs) |-> FExp(normalized_logits[i])]
        normalized_exp_sum ==
            [g \in GroupIds(idx) |-> scatter_nd(idx, normalized_exp_values, g)]
        log_exp_sum == [g \in GroupIds(idx) |-> FLog(normalized_exp_sum[g])]
        normalized_log_exp_sum == [i \in Items(xs) |-> log_exp_sum[idx[i]]]
    IN  [kind |-> "built",
         logits_max |-> logits_max,
         normalized_logits |-> normalized_logits,
         normalized_exp_values |-> normalized_exp_values,
         normalized_exp_sum |-> normalized_exp_sum,
         log_exp_sum |-> log_exp_sum,
         out |-> [i \in Items(xs) |->
                     FSub(normalized_logits[i], normalized_log_exp_sum[i])]]

(***************************************************************************)
(* Tensors of the hexagonal builders.  A dense tensor is a record of its   *)
(* shape and of its values, indexed from 0; the values are in thousandths  *)
(* (MILLI stands for 1.0), the unit of the literals of hive_lib_test.py.   *)
(***************************************************************************)
MILLI == 1000

Idx4(shape) ==
    (0..(shape[1] - 1)) \X (0..(shape[2] - 1)) \X (0..(shape[3] - 1))
        \X (0..(shape[4] - 1))

\* a * b on values in thousandths, rounded to the nearest unit; the whole
\* and the fractional part of a are multiplied apart, to stay in 32 bits.
MulMilli(a, b) ==
    (a \div MILLI) * b + ((a % MILLI) * b + MILLI \div 2) \div MILLI

(***************************************************************************)
(* The variable store: tf.variable_scope and tf.get_variable.              *)
(***************************************************************************)
\* The variables of the graph in the order of their creation; a variable's
\* handle is its place in the store.
EmptyStore == <<>>

\* The handle of the variable named `full`, 0 when there is none.
Find(st, full) ==
    IF \E h \in 1..Len(st) : st[h].name = full
    THEN CHOOSE h \in 1..Len(st) :
            /\ st[h].name = full
            /\ \A g \in 1..(h - 1) : st[g].name # full
    ELSE 0

\* The shape argument None of tf.get_variable.
NoShape == <<>>

\* A variable scope: the path of its name and its reuse flag.
variable_scope(path, reuse) == [path |-> path, reuse |-> reuse]

\* The root scope of a fresh graph, as under tf.Graph().as_default().
RootScope == variable_scope(<<>>, "NONE")

\* The values an initializer gives to row r, channels ci, co of the
\* component `name`.  The profiles "conv_test" and "filters_test" are the
\* tensors of hive_lib_test.py; "drawn" and "redrawn" stand for two draws of
\* a random initializer, with a value of its own for every tap.
ProfileValue(p, name, r, ci, co) ==
    CASE p = "conv_test" ->
            IF name = "hex_filter_center" /\ r = 1 THEN 1000 ELSE 1
      [] p = "filters_test" ->
            IF name = "hex_filter_center" THEN (IF r = 1 THEN 1000 ELSE 1)
            ELSE IF name = "hex_filter_left" THEN 2 ELSE 3
      [] p = "drawn" ->
            (IF name = "hex_filter_center" THEN <<2000, -3000, 5000>>[r + 1]
             ELSE IF name = "hex_filter_left" THEN <<7000, -11000>>[r + 1]
             ELSE <<13000, 17000>>[r + 1]) + 100 * ci + 10 * co
      [] OTHER ->
            (IF name = "hex_filter_center" THEN <<-500, 250, 4000>>[r + 1]
             ELSE IF name = "hex_filter_left" THEN <<-1500, 6000>>[r + 1]
             ELSE <<750, -2000>>[r + 1]) - 100 * ci + 10 * co

ProfileTensor(p, name, shape) ==
    [shape |-> shape,
     at |-> [i \in Idx4(shape) |-> ProfileValue(p, name, i[1], i[3], i[4])]]

\* An initializer: None ("none", the default initializer draws the values),
\* an initializer function ("fn") or a list of three tensors ("list") of
\* the shapes [3, 1, dims], [2, 1, dims], [2, 1, dims].
Initializer(kind, profile, dims) ==
    [kind |-> kind, profile |-> profile, dims |-> dims]

ComponentRows(name) == IF name = "hex_filter_center" THEN 3 ELSE 2

\* The weights of a dense layer: a kernel [inputs, units] the initializer
\* draws and a bias [units] of zeros.
DenseTensor(p, name, shape) ==
    IF name = "bias"
    THEN [shape |-> shape, at |-> [i \in {<<u>> : u \in 0..(shape[1] - 1)} |-> 0]]
    ELSE [shape |-> shape,
          at |-> [i \in (0..(shape[1] - 1)) \X (0..(shape[2] - 1)) |->
                    (IF p = "drawn" THEN 1000 ELSE -2000) + 100 * i[1] + 10 * i[2]]]

\* The value a new variable starts with.
InitialValue(initializer, name, shape) ==
    IF name \in {"kernel", "bias"}
    THEN DenseTensor(initializer.profile, name, shape)
    ELSE IF initializer.kind = "list"
    THEN ProfileTensor(initializer.profile, name,
                       <<ComponentRows(name), 1>> \o initializer.dims)
    ELSE ProfileTensor(initializer.profile, name, shape)

\* A new variable in the store.
Create(st, full, v) ==
    Append(st, [name |-> full, shape |-> v.shape, at |-> v.at])

\* The variable of that name exists.
Found(st, scope, full, shape) ==
    IF scope.reuse # "AUTO_REUSE"
    THEN [err |-> "variable already exists", store |-> st, var |-> Find(st, full)]
    ELSE IF shape # NoShape /\ shape # st[Find(st, full)].shape
    THEN [err |-> "shape mismatch", store |-> st, var |-> Find(st, full)]
    ELSE [err |-> "", store |-> st, var |-> Find(st, full)]

\* A variable is created whatever the store holds.
get_variable_anew(st, scope, name, shape, initializer) ==
    [err |-> "", var |-> Len(st) + 1,
     store |-> Create(st, Append(scope.path, name),
                      InitialValue(initializer, name, shape))]

\* tf.get_variable under `scope`.  An existing variable is returned when the
\* scope reuses (the shape asked for, when one is given, must be its shape),
\* and is an error when it does not; a missing one is created.
get_variable(st, scope, name, shape, initializer) ==
    IF Find(st, Append(scope.path, name)) # 0
    THEN Found(st, scope, Append(scope.path, name), shape)
    ELSE [err |-> "", var |-> Len(st) + 1,
          store |-> Create(st, Append(scope.path, name),
                           InitialValue(initializer, name, shape))]

(***************************************************************************)
(* hexagonal_filters.  A filter is a graph node over the variables: a      *)
(* matrix of taps, each the row of a variable or a zero of the padding.    *)
(***************************************************************************)
_HEX_SIDES_NAMES == <<"left", "right">>

ZeroTap == [var |-> 0, row |-> 0]

\* The node reading the variable of handle h: one column of its rows.
VarNode(st, h) ==
    [shape |-> st[h].shape,
     taps |-> [r \in 1..st[h].shape[1] |-> <<[var |-> h, row |-> r - 1]>>]]

\* tf.zeros([1, 1, in_channels, out_channels])
ZerosNode(in_channels, out_channels) ==
    [shape |-> <<1, 1, in_channels, out_channels>>, taps |-> <<<<ZeroTap>>>>]

\* tf.concat([a, b], axis=0)
Concat0(a, b) ==
    [shape |-> <<a.shape[1] + b.shape[1], a.shape[2], a.shape[3], a.shape[4]>>,
     taps |-> a.taps \o b.taps]

Concat0Ok(a, b) ==
    /\ a.shape[2] = b.shape[2]
    /\ a.shape[3] = b.shape[3]
    /\ a.shape[4] = b.shape[4]

\* tf.concat([a, b, c], axis=1)
Concat1(a, b, c) ==
    [shape |-> <<a.shape[1], a.shape[2] + b.shape[2] + c.shape[2],
                 a.shape[3], a.shape[4]>>,
     taps |-> [r \in 1..a.shape[1] |-> a.taps[r] \o b.taps[r] \o c.taps[r]]]

Concat1Ok(a, b, c) ==
    /\ a.shape[1] = b.shape[1] /\ b.shape[1] = c.shape[1]
    /\ a.shape[3] = b.shape[3] /\ b.shape[3] = c.shape[3]
    /\ a.shape[4] = b.shape[4] /\ b.shape[4] = c.shape[4]

\* Both filters padded at the bottom.
full_sides_same(idx, side, padding) == Concat0(side, padding)

\* The padding on the wrong end of each filter.
full_sides_swapped(idx, side, padding) ==
    IF idx = 0 THEN Concat0(padding, side) ELSE Concat0(side, padding)

\* A side column of filter idx: padded at the bottom for the even filter
\* (idx = 0), at the top for the odd one.
full_sides(idx, side, padding) ==
    IF idx = 0 THEN Concat0(side, padding) ELSE Concat0(padding, side)

\* The shapes hexagonal_filters asks its variables to have: none when the
\* initializer is a list of tensors.
FilterShapes(in_channels, out_channels, initializer) ==
    IF initializer.kind = "list"
    THEN <<NoShape, NoShape, NoShape>>
    ELSE <<<<3, 1, in_channels, out_channels>>,
           <<2, 1, in_channels, out_channels>>,
           <<2, 1, in_channels, out_channels>>>>

\* One more tf.get_variable of a builder, skipped once a call has raised.
NextVariable(acc, scope, name, shape, initializer) ==
    IF acc.err # "" THEN acc
    ELSE (LET r == get_variable(acc.store, scope, name, shape, initializer)
          IN  [err |-> r.err, store |-> r.store, vars |-> Append(acc.vars, r.var)])

NoVariables(st) == [err |-> "", store |-> st, vars |-> <<>>]

\* center, then sides[0], sides[1].
hexagonal_variables(st, scope, shapes, initializer) ==
    NextVariable(
        NextVariable(
            NextVariable(NoVariables(st), scope, "hex_filter_center",
                         shapes[1], initializer),
            scope, "hex_filter_" \o _HEX_SIDES_NAMES[1], shapes[2], initializer),
        scope, "hex_filter_" \o _HEX_SIDES_NAMES[2], shapes[3], initializer)

FiltersFit(center, sides, padding) ==
    /\ \A ii \in 1..2 : Concat0Ok(sides[ii], padding)
    /\ \A ii \in 1..2 : Concat1Ok(Concat0(sides[ii], padding), center,
                                  Concat0(sides[ii], padding))
    /\ Concat1Ok(Concat0(sides[1], padding), center, Concat0(sides[2], padding))

\* filters.append(tf.concat([full_sides[0], center, full_sides[1]], axis=1))
\* for idx in range(2).
ComposeFilters(center, sides, padding) ==
    [i \in 1..2 |->
        Concat1(full_sides(i - 1, sides[1], padding), center,
                full_sides(i - 1, sides[2], padding))]

FiltersOf(v, center, sides, padding) ==
    IF ~FiltersFit(center, sides, padding)
    THEN [err |-> "concat: shapes do not match", store |-> v.store,
          filters |-> <<>>, weights |-> v.vars]
    ELSE [err |-> "", store |-> v.store, weights |-> v.vars,
          filters |-> ComposeFilters(center, sides, padding)]

FiltersOver(v, in_channels, out_channels) ==
    IF v.err # ""
    THEN [err |-> v.err, store |-> v.store, filters |-> <<>>, weights |-> v.vars]
    ELSE FiltersOf(v, VarNode(v.store, v.vars[1]),
                   <<VarNode(v.store, v.vars[2]), VarNode(v.store, v.vars[3])>>,
                   ZerosNode(in_channels, out_channels))

hexagonal_filters(st, scope, in_channels, out_channels, initializer) ==
    FiltersOver(
        hexagonal_variables(st, scope,
            FilterShapes(in_channels, out_channels, initializer), initializer),
        in_channels, out_channels)

\* The value of a filter node under the variables' current values.
FilterValue(node, st) ==
    [shape |-> node.shape,
     at |-> [i \in Idx4(node.shape) |->
                LET t == node.taps[i[1] + 1][i[2] + 1]
                IN  IF t.var = 0 THEN 0
                    ELSE st[t.var].at[<<t.row, 0, i[3], i[4]>>]]]

(***************************************************************************)
(* hexagonal_conv2d                                                        *)
(***************************************************************************)
InGrid(shape, b, y, x) ==
    /\ 0 <= y /\ y < shape[2]
    /\ 0 <= x /\ x < shape[3]

\* The input with everything outside the grid reading 0 (padding='SAME').
Padded(input, b, y, x, ci) ==
    IF InGrid(input.shape, b, y, x) THEN input.at[<<b, y, x, ci>>] ELSE 0

Taps3x3 == (0..2) \X (0..2)

\* A true convolution, with the kernel flipped.
conv2d_flipped(input, k) ==
    [shape |-> <<input.shape[1], input.shape[2], input.shape[3], k.shape[4]>>,
     at |-> [i \in Idx4(<<input.shape[1], input.shape[2], input.shape[3],
                          k.shape[4]>>) |->
        SumOver([t \in Taps3x3 \X (0..(input.shape[4] - 1)) |->
                  MulMilli(Padded(input, i[1], i[2] + 1 - t[1][1],
                                  i[3] + 1 - t[1][2], t[2]),
                           k.at[<<t[1][1], t[1][2], t[2], i[4]>>])],
              Taps3x3 \X (0..(input.shape[4] - 1)))]]

\* tf.nn.conv2d(input, k, strides=[1, 1, 1, 1], padding='SAME') with a
\* [3, 3, in, out] kernel: the correlation of the zero-padded input.
conv2d(input, k) ==
    [shape |-> <<input.shape[1], input.shape[2], input.shape[3], k.shape[4]>>,
     at |-> [i \in Idx4(<<input.shape[1], input.shape[2], input.shape[3],
                          k.shape[4]>>) |->
        SumOver([t \in Taps3x3 \X (0..(input.shape[4] - 1)) |->
                  MulMilli(Padded(input, i[1], i[2] + t[1][1] - 1,
                                  i[3] + t[1][2] - 1, t[2]),
                           k.at[<<t[1][1], t[1][2], t[2], i[4]>>])],
              Taps3x3 \X (0..(input.shape[4] - 1)))]]

\* A mask over the rows instead of the columns.
selection_mask_rows(shape, i) == i[2] % 2 = 0

\* tf.equal(tf.range(width) % 2, 0), reshaped to [1, 1, width, 1] and
\* broadcast to the shape of the output: the value at index i.
selection_mask(shape, i) == i[3] % 2 = 0

\* tf.where(selection_mask, even_out, odd_out)
Mix(even_out, odd_out) ==
    [shape |-> even_out.shape,
     at |-> [i \in Idx4(even_out.shape) |->
                IF selection_mask(even_out.shape, i)
                THEN even_out.at[i] ELSE odd_out.at[i]]]

ConvOver(f, in_channels, out_channels) ==
    IF f.err # ""
    THEN [err |-> f.err, store |-> f.store, filters |-> <<>>,
          weights |-> f.weights]
    ELSE IF f.filters[1].shape[3] # in_channels
    THEN [err |-> "conv2d: input depth does not match the filter",
          store |-> f.store, filters |-> <<>>, weights |-> f.weights]
    ELSE [err |-> "", store |-> f.store, filters |-> f.filters,
          weights |-> f.weights]

\* The graph hexagonal_conv2d builds.
hexagonal_conv2d(st, scope, hex_input, out_channels, filter_initializer) ==
    ConvOver(hexagonal_filters(st, scope, hex_input.shape[4], out_channels,
                               filter_initializer),
             hex_input.shape[4], out_channels)

ConvTensors(even_out, odd_out) ==
    [even_out |-> even_out, odd_out |-> odd_out, mix |-> Mix(even_out, odd_out)]

\* The tensors of hexagonal_conv2d's graph for the input and the current
\* values of the variables.
RunConv(filters, st, hex_input) ==
    ConvTensors(conv2d(hex_input, FilterValue(filters[1], st)),
                conv2d(hex_input, FilterValue(filters[2], st)))

(***************************************************************************)
(* hexagonal_layer                                                         *)
(***************************************************************************)
\* out_channels=None
NoneChannels == 0

\* The activation functions the callers pass.
Activations == {"linear", "relu"}

Activate(activation, v) ==
    IF activation = "relu" THEN (IF v < 0 THEN 0 ELSE v) ELSE v

\* The residual lands in the last channels: tf.concat([padding, map]).
PadChannelsFront(map, out_channels) ==
    [shape |-> <<map.shape[1], map.shape[2], map.shape[3], out_channels>>,
     at |-> [i \in Idx4(<<map.shape[1], map.shape[2], map.shape[3],
                          out_channels>>) |->
                IF i[4] >= out_channels - map.shape[4]
                THEN map.at[<<i[1], i[2], i[3],
                              i[4] - (out_channels - map.shape[4])>>]
                ELSE 0]]

\* tf.concat([hexagonal_map, padding], axis=3), the padding being zeros of
\* out_channels - in_channels channels.
PadChannels(map, out_channels) ==
    [shape |-> <<map.shape[1], map.shape[2], map.shape[3], out_channels>>,
     at |-> [i \in Idx4(<<map.shape[1], map.shape[2], map.shape[3],
                          out_channels>>) |->
                IF i[4] < map.shape[4] THEN map.at[i] ELSE 0]]

\* a + b, elementwise, on tensors of one shape.
AddTensors(a, b) ==
    [shape |-> a.shape, at |-> [i \in Idx4(a.shape) |-> a.at[i] + b.at[i]]]

\* out_channels, the input's channel count standing for None.
OutChannels(map, out_channels) ==
    IF out_channels = NoneChannels THEN map.shape[4] ELSE out_channels

\* initializer, a truncated normal standing for None.
LayerInitializer(initializer) ==
    IF initializer.kind = "none"
    THEN Initializer("fn", initializer.profile, initializer.dims)
    ELSE initializer

GraphOf(kind, conv, in_channels, oc, activation) ==
    [kind |-> kind, err |-> conv.err, store |-> conv.store,
     filters |-> conv.filters, weights |-> conv.weights,
     in_channels |-> in_channels, out_channels |-> oc,
     activation |-> activation,
     residual |-> IF kind = "conv" THEN "absent"
                  ELSE IF in_channels = oc THEN "straight"
                  ELSE IF oc > in_channels THEN "padded"
                  ELSE "absent"]

\* The graph hexagonal_layer builds: the convolution, the activation and
\* the residual the channel counts select.
hexagonal_layer(st, scope, map, activation, out_channels, initializer) ==
    GraphOf("layer",
            hexagonal_conv2d(st, scope, map, OutChannels(map, out_channels),
                             LayerInitializer(initializer)),
            map.shape[4], OutChannels(map, out_channels), activation)

\* hexagonal_conv2d called on its own, as hive_lib_test.py does.
ConvGraph(st, scope, map, out_channels, initializer) ==
    GraphOf("conv", hexagonal_conv2d(st, scope, map, out_channels, initializer),
            map.shape[4], out_channels, "linear")

ActivateTensor(activation, t) ==
    [shape |-> t.shape,
     at |-> [i \in Idx4(t.shape) |-> Activate(activation, t.at[i])]]

\* The input cut to the channels of the output.
TruncateChannels(map, out_channels) ==
    [shape |-> <<map.shape[1], map.shape[2], map.shape[3], out_channels>>,
     at |-> [i \in Idx4(<<map.shape[1], map.shape[2], map.shape[3],
                          out_channels>>) |-> map.at[i]]]

\* A residual of the channels that fit, when there are fewer of them.
AddResidualTruncating(graph, map, activated) ==
    IF graph.out_channels = graph.in_channels
    THEN AddTensors(activated, map)
    ELSE IF graph.out_channels > graph.in_channels
    THEN AddTensors(activated, PadChannels(map, graph.out_channels))
    ELSE AddTensors(activated, TruncateChannels(map, graph.out_channels))

\* hexagonal_output + the residual of the graph.
AddResidual(graph, map, activated) ==
    IF graph.residual = "straight"
    THEN AddTensors(activated, map)
    ELSE IF graph.residual = "padded"
    THEN AddTensors(activated, PadChannels(map, graph.out_channels))
    ELSE activated

RanOf(graph, map, conv) ==
    [kind |-> "ran", even_out |-> conv.even_out, odd_out |-> conv.odd_out,
     mix |-> conv.mix,
     out |-> IF graph.kind = "conv" THEN conv.mix
             ELSE AddResidual(graph, map,
                              ActivateTensor(graph.activation, conv.mix))]

\* The tensors of the graph for the input and the variables' values.
RunGraph(graph, st, map) == RanOf(graph, map, RunConv(graph.filters, st, map))

(***************************************************************************)
(* The specification of the hexagonal builders: a grid, one builder call   *)
(* in a fresh graph and the evaluation of what it built.                   *)
(***************************************************************************)
MaxBatch == 2
MaxHeight == 3
MaxWidth == 4
MaxChannels == 2

\* The grid of test_hexagonal_conv2d.
BATCH_SIZE == 2
HEIGHT == 5
WIDTH == 5
DEPTH == 1

Flat(shape, i) == ((i[1] * shape[2] + i[2]) * shape[3] + i[3]) * shape[4] + i[4]

\* np.arange(...).reshape(shape), and a grid of mixed signs.
GridValue(pattern, n) ==
    IF pattern = "arange" THEN MILLI * n
    ELSE MILLI * (((7 * n * n + 3 * n + 5) % 11) - 4)

Grid(shape, pattern) ==
    [shape |-> shape,
     at |-> [i \in Idx4(shape) |-> GridValue(pattern, Flat(shape, i))]]

TestGrid == Grid(<<BATCH_SIZE, HEIGHT, WIDTH, DEPTH>>, "arange")

\* The test's grid, and grids of one and of several batches, of one and of
\* several rows, of one column and of a last column of either parity.
Grids ==
    {TestGrid} \cup
    {Grid(<<b, h, w, c>>, p) :
        b \in {1, MaxBatch}, h \in {1, MaxHeight},
        w \in {1, MaxWidth - 1, MaxWidth},
        c \in 1..MaxChannels, p \in {"mixed"}}

\* The initializers a call with these channel counts is given.
Initializers(in_channels, out_channels) ==
    {Initializer("list", p, <<in_channels, out_channels>>) :
        p \in IF in_channels = 1 /\ out_channels = 1
              THEN {"conv_test", "filters_test", "drawn"} ELSE {"drawn"}}
    \cup {Initializer("fn", "redrawn", <<>>)}

SoftmaxIdle == logits = <<>> /\ indices = <<>> /\ sm = None

\* Neither the loss nor the prediction head has been given anything.
HeadIdle ==
    /\ labels = <<>> /\ loss = <<>>
    /\ board_raw_predictions = <<>> /\ board_predictions = None

HexInit ==
    /\ SoftmaxIdle
    /\ calls = 0 /\ steps = 0
    /\ HeadIdle
    /\ store = EmptyStore
    /\ hexagonal_map \in Grids
    /\ hx = None
    /\ got = None

\* The builder returns graph g, having changed the store as g tells.
Returns(g) == hx' = g /\ store' = g.store

HexagonalConv2d ==
    /\ hx = None
    /\ \E oc \in 1..MaxChannels :
       \E init \in Initializers(hexagonal_map.shape[4], oc) :
          Returns(ConvGraph(store, RootScope, hexagonal_map, oc, init))
    /\ UNCHANGED <<hexagonal_map, got>>
    /\ UNCHANGED smVars
    /\ UNCHANGED headVars
    /\ UNCHANGED passVars

HexagonalLayer ==
    /\ hx = None
    /\ \E activation \in Activations :
       \E oc \in {NoneChannels} \cup 1..(MaxChannels + 1) :
       \E init \in Initializers(hexagonal_map.shape[4],
                                IF oc = NoneChannels
                                THEN hexagonal_map.shape[4] ELSE oc)
                   \cup {Initializer("none", "redrawn", <<>>)} :
          Returns(hexagonal_layer(store, RootScope, hexagonal_map,
                                  activation, oc, init))
    /\ UNCHANGED <<hexagonal_map, got>>
    /\ UNCHANGED smVars
    /\ UNCHANGED headVars
    /\ UNCHANGED passVars

\* sess.run of the tensor the builder returned.
SessionRun ==
    /\ hx # None
    /\ hx.kind \in {"conv", "layer"}
    /\ hx.err = ""
    /\ got = None
    /\ got' = RunGraph(hx, store, hexagonal_map)
    /\ UNCHANGED <<store, hexagonal_map, hx>>
    /\ UNCHANGED smVars
    /\ UNCHANGED headVars
    /\ UNCHANGED passVars

HexNext == HexagonalConv2d \/ HexagonalLayer \/ SessionRun

HexSpec == HexInit /\ [][HexNext]_vars

(***************************************************************************)
(* Properties of hexagonal_conv2d and hexagonal_layer.                     *)
(***************************************************************************)
Ran == got # None

\* The value of tap r of weight k (1: center, 2: left, 3: right) of the
\* graph, between input channel ci and output channel co.
Weight(k, r, ci, co) == store[hx.weights[k]].at[<<r, 0, ci, co>>]

In(b, y, x, ci) == Padded(hexagonal_map, b, y, x, ci)

\* The radius-1 hexagon around (y, x) of batch b, seen from input channel
\* ci by output channel co.
HexTerm(b, y, x, ci, co) ==
      MulMilli(In(b, y - 1, x, ci), Weight(1, 0, ci, co))
    + MulMilli(In(b, y, x, ci), Weight(1, 1, ci, co))
    + MulMilli(In(b, y + 1, x, ci), Weight(1, 2, ci, co))
    + (IF x % 2 = 0
       THEN   MulMilli(In(b, y - 1, x - 1, ci), Weight(2, 0, ci, co))
            + MulMilli(In(b, y, x - 1, ci), Weight(2, 1, ci, co))
            + MulMilli(In(b, y - 1, x + 1, ci), Weight(3, 0, ci, co))
            + MulMilli(In(b, y, x + 1, ci), Weight(3, 1, ci, co))
       ELSE   MulMilli(In(b, y, x - 1, ci), Weight(2, 0, ci, co))
            + MulMilli(In(b, y + 1, x - 1, ci), Weight(2, 1, ci, co))
            + MulMilli(In(b, y, x + 1, ci), Weight(3, 0, ci, co))
            + MulMilli(In(b, y + 1, x + 1, ci), Weight(3, 1, ci, co)))

HexConvolution(i) ==
    SumOver([ci \in 0..(hx.in_channels - 1) |->
                HexTerm(i[1], i[2], i[3], ci, i[4])],
            0..(hx.in_channels - 1))

\* The matrix test_hexagonal_conv2d wants, in thousandths.
TestWant ==
    <<    6,  1020,  2011,  3030,  4012,
       5017,  6046,  7032,  8058,  9029,
      10037, 11076, 12062, 13088, 14049,
      15057, 16106, 17092, 18118, 19069,
      20052, 21058, 22095, 23064, 24060,
      25056, 26145, 27086, 28155, 29062,
      30117, 31196, 32182, 33208, 34129,
      35137, 36226, 37212, 38238, 39149,
      40157, 41256, 42242, 43268, 44169,
      45127, 46133, 47220, 48139, 49135>>

\* The scenario of test_hexagonal_conv2d has been evaluated.
ConvTestRan ==
    /\ Ran
    /\ hx.kind = "conv"
    /\ hexagonal_map = TestGrid
    /\ \A k \in 1..3 : \A r \in 0..(IF k = 1 THEN 2 ELSE 1) :
          Weight(k, r, 0, 0) = (IF k = 1 /\ r = 1 THEN 1000 ELSE 1)

\* C4: every output cell of hexagonal_conv2d is the radius-1 hex
\* convolution of the offset layout, the positions outside the grid
\* counting as 0; on the test's grid and weights it is the test's matrix.
C4_HexConvolution ==
    Ran =>
        /\ got.mix.shape = <<hexagonal_map.shape[1], hexagonal_map.shape[2],
                             hexagonal_map.shape[3], hx.out_channels>>
        /\ \A i \in Idx4(got.mix.shape) : got.mix.at[i] = HexConvolution(i)
        /\ ConvTestRan =>
              \A i \in Idx4(got.mix.shape) :
                 got.out.at[i] = TestWant[Flat(got.mix.shape, i) + 1]

\* The test's scenario has been evaluated, with 0.006 and 1.020 in the
\* first two cells.
C4_Witness ==
    /\ ConvTestRan
    /\ got.out.at[<<0, 0, 0, 0>>] = 6
    /\ got.out.at[<<0, 0, 1, 0>>] = 1020

\* C5: an output cell is the even kernel's convolution in an even column
\* and the odd kernel's in an odd one, whatever the batch, row and channel.
C5_ColumnParitySelects ==
    Ran =>
        LET even == conv2d(hexagonal_map, FilterValue(hx.filters[1], store))
            odd == conv2d(hexagonal_map, FilterValue(hx.filters[2], store))
        IN  \A i \in Idx4(got.mix.shape) :
               got.mix.at[i] = (IF i[3] % 2 = 0 THEN even.at[i] ELSE odd.at[i])

\* A grid of several rows, columns, batches and channels has been
\* evaluated, the two convolutions differing in an even and in an odd
\* column of its second row.
C5_Witness ==
    /\ Ran
    /\ hexagonal_map.shape[1] >= 2 /\ hexagonal_map.shape[2] >= 2
    /\ hexagonal_map.shape[3] >= 3 /\ hx.out_channels >= 2
    /\ \E b \in {hexagonal_map.shape[1] - 1} : \E co \in {hx.out_channels - 1} :
          /\ got.even_out.at[<<b, 1, 1, co>>] # got.odd_out.at[<<b, 1, 1, co>>]
          /\ got.mix.at[<<b, 1, 1, co>>] = got.odd_out.at[<<b, 1, 1, co>>]
          /\ got.even_out.at[<<b, 1, 2, co>>] # got.odd_out.at[<<b, 1, 2, co>>]
          /\ got.mix.at[<<b, 1, 2, co>>] = got.even_out.at[<<b, 1, 2, co>>]

LayerRan == Ran /\ hx.kind = "layer"

\* C8: hexagonal_layer adds the input to the activated convolution: to every
\* channel when the channel counts are equal, to the first in_channels
\* channels when there are more output channels.
C8_Residual ==
    LayerRan =>
        /\ hx.out_channels = hx.in_channels =>
              \A i \in Idx4(got.out.shape) :
                 got.out.at[i] = Activate(hx.activation, got.mix.at[i])
                                    + hexagonal_map.at[i]
        /\ hx.out_channels > hx.in_channels =>
              \A i \in Idx4(got.out.shape) :
                 got.out.at[i] = Activate(hx.activation, got.mix.at[i])
                     + (IF i[4] < hx.in_channels THEN hexagonal_map.at[i] ELSE 0)

\* A layer with more output than input channels has been evaluated on a
\* grid whose last cell is not 0, the activation having cut a value.
C8_Witness ==
    /\ LayerRan
    /\ hx.out_channels > hx.in_channels
    /\ hx.in_channels >= 2
    /\ \E i \in Idx4(hexagonal_map.shape) :
          hexagonal_map.at[i] # 0 /\ i[4] = hx.in_channels - 1
    /\ \E i \in Idx4(got.out.shape) :
          Activate(hx.activation, got.mix.at[i]) # got.mix.at[i]

FewerChannels ==
    hx # None /\ hx.kind = "layer" /\ hx.out_channels < hx.in_channels

\* C9 as claimed: a layer asked for fewer output than input channels raises
\* an error and returns no tensor.
C9_FewerChannelsRaise ==
    FewerChannels => hx.err # "" /\ ~Ran

\* C9 as the code has it: a layer asked for fewer output than input channels
\* raises nothing and returns the activated convolution, of out_channels
\* channels, with no residual added.
C9_FewerChannelsNoResidual ==
    FewerChannels =>
        /\ hx.err = ""
        /\ Ran =>
              /\ got.out.shape = <<hexagonal_map.shape[1], hexagonal_map.shape[2],
                                   hexagonal_map.shape[3], hx.out_channels>>
              /\ \A i \in Idx4(got.out.shape) :
                    got.out.at[i] = Activate(hx.activation, got.mix.at[i])

\* A layer of fewer output channels has been evaluated on a grid that is
\* not 0 in the channels it keeps.
C9_Witness ==
    /\ FewerChannels
    /\ Ran
    /\ \E i \in Idx4(got.out.shape) : hexagonal_map.at[i] # 0

(***************************************************************************)
(* tf.layers.dense and build_skip_ffnn: the variables they make and the    *)
(* tensors they compose.                                                   *)
(***************************************************************************)
\* tf.layers.dense(inputs, units, name="linear", reuse=tf.AUTO_REUSE) under
\* `scope`: the kernel, then the bias, under <scope>/linear.
dense(st, scope, in_width, units, initializer) ==
    NextVariable(
        NextVariable(NoVariables(st),
                     variable_scope(Append(scope.path, "linear"), "AUTO_REUSE"),
                     "kernel", <<in_width, units>>, initializer),
        variable_scope(Append(scope.path, "linear"), "AUTO_REUSE"),
        "bias", <<units>>, initializer)

\* The tensor build_skip_ffnn is given.
InputTensor == [op |-> "input"]

\* activation(inputs . kernel + bias) of the dense layer under `key`.
DenseOutput(inputs, key, units, activation) ==
    [op |-> "dense", key |-> key, units |-> units, activation |-> activation,
     inputs |-> inputs]

\* tf.concat([logits, input], 1)
ConcatInput(t) == [op |-> "concat", parts |-> <<t, InputTensor>>]

NoLayers(st, input_width) ==
    [err |-> "", store |-> st, layers |-> <<>>, width |-> input_width,
     logits |-> InputTensor]

\* The stack without the concatenation of the input after a layer.
DenseLayerAlone(acc, d, key, units, activation, skip_width) ==
    IF d.err # ""
    THEN [err |-> d.err, store |-> d.store, layers |-> acc.layers,
          width |-> acc.width, logits |-> acc.logits]
    ELSE [err |-> "", store |-> d.store, width |-> units,
          logits |-> DenseOutput(acc.logits, key, units, activation),
          layers |-> Append(acc.layers,
                            [key |-> key, weights |-> d.vars,
                             in_width |-> acc.width, units |-> units,
                             activation |-> activation])]

\* The stack after the dense layer d of `units` units under `key`, and the
\* concatenation of skip_width columns of the input (none when it is 0).
DenseLayer(acc, d, key, units, activation, skip_width) ==
    IF d.err # ""
    THEN [err |-> d.err, store |-> d.store, layers |-> acc.layers,
          width |-> acc.width, logits |-> acc.logits]
    ELSE [err |-> "", store |-> d.store, width |-> units + skip_width,
          logits |-> IF skip_width > 0
                     THEN ConcatInput(DenseOutput(acc.logits, key, units, activation))
                     ELSE DenseOutput(acc.logits, key, units, activation),
          layers |-> Append(acc.layers,
                            [key |-> key, weights |-> d.vars,
                             in_width |-> acc.width, units |-> units,
                             activation |-> activation])]

AddDense(acc, scope, units, activation, initializer, skip_width) ==
    IF acc.err # "" THEN acc
    ELSE DenseLayer(acc, dense(acc.store, scope, acc.width, units, initializer),
                    scope.path, units, activation, skip_width)

\* for ii in range(num_hidden_layers - 1), from ii on.
RECURSIVE hidden_layers(_, _, _, _, _, _, _, _)
hidden_layers(acc, scope, ii, num_hidden_layers, num_hidden_layers_nodes, input_width, activation, initializer) ==
    IF ii >= num_hidden_layers - 1 THEN acc
    ELSE hidden_layers(
            AddDense(acc,
                     variable_scope(Append(scope.path, "hidden_" \o ToString(ii)),
                                    "AUTO_REUSE"),
                     num_hidden_layers_nodes, activation, initializer, input_width),
            scope, ii + 1, num_hidden_layers, num_hidden_layers_nodes,
            input_width, activation, initializer)

\* The stack without the test of num_hidden_layers > 0.
build_skip_ffnn_unguarded(st, scope, input_width, num_hidden_layers, num_hidden_layers_nodes, skip_also_output, output_embedding_dim, activation, initializer) ==
    AddDense(
        hidden_layers(NoLayers(st, input_width), scope, 0,
                      num_hidden_layers, num_hidden_layers_nodes,
                      input_width, activation, initializer),
        variable_scope(Append(scope.path, "embedding_layer"), "AUTO_REUSE"),
        output_embedding_dim, activation, initializer,
        IF skip_also_output THEN input_width ELSE 0)

build_skip_ffnn(st, scope, input_width, num_hidden_layers, num_hidden_layers_nodes, skip_also_output, output_embedding_dim, activation, initializer) ==
    IF num_hidden_layers > 0
    THEN AddDense(
            hidden_layers(NoLayers(st, input_width), scope, 0,
                          num_hidden_layers, num_hidden_layers_nodes,
                          input_width, activation, initializer),
            variable_scope(Append(scope.path, "embedding_layer"), "AUTO_REUSE"),
            output_embedding_dim, activation, initializer,
            IF skip_also_output THEN input_width ELSE 0)
    ELSE NoLayers(st, input_width)

(***************************************************************************)
(* The graph-building pass: a sequence of builder calls, each under the    *)
(* variable scope of its caller, on one store of variables.                *)
(***************************************************************************)
MaxCalls == 2
MaxSteps == 1
MaxLayers == 2
MaxHidden == 3
MaxUnits == 2

\* One scope for all the layers of the stack.
HexLayerScopeShared(ii) == variable_scope(<<"hex_layer">>, "AUTO_REUSE")

\* with tf.variable_scope("hex_layer_{}".format(ii), reuse=tf.AUTO_REUSE)
HexLayerScope(ii) ==
    variable_scope(<<"hex_layer_" \o ToString(ii)>>, "AUTO_REUSE")

\* with tf.variable_scope("board_kernel", reuse=tf.AUTO_REUSE)
BoardKernelScope == variable_scope(<<"board_kernel">>, "AUTO_REUSE")

\* The scopes hexagonal_filters is called under: the root of the graph, as
\* the tests call it, and the scope of a layer.
FilterScopes == {RootScope} \cup {HexLayerScope(ii) : ii \in 0..(MaxLayers - 1)}

FiltersGraph(r, scope, in_channels, out_channels, initializer) ==
    [kind |-> "filters", err |-> r.err, store |-> r.store,
     filters |-> r.filters, weights |-> r.weights, scope |-> scope,
     in_channels |-> in_channels, out_channels |-> out_channels,
     initializer |-> initializer]

FfnnGraph(r, scope, input_width, num_hidden_layers, num_hidden_layers_nodes, skip_also_output, output_embedding_dim, activation) ==
    [kind |-> "ffnn", err |-> r.err, store |-> r.store, layers |-> r.layers,
     width |-> r.width, logits |-> r.logits,
     scope |-> scope, input_width |-> input_width,
     num_hidden_layers |-> num_hidden_layers,
     num_hidden_layers_nodes |-> num_hidden_layers_nodes,
     skip_also_output |-> skip_also_output,
     output_embedding_dim |-> output_embedding_dim,
     activation |-> activation]

BuildInit ==
    /\ SoftmaxIdle
    /\ calls = 0 /\ steps = 0
    /\ HeadIdle
    /\ store = EmptyStore
    /\ hexagonal_map = None
    /\ hx = None
    /\ got = None

Called(g) ==
    /\ hx' = g
    /\ store' = g.store
    /\ calls' = calls + 1
    /\ got' = None
    /\ UNCHANGED <<hexagonal_map, steps>>
    /\ UNCHANGED smVars
    /\ UNCHANGED headVars

\* hexagonal_filters under a scope, with as many output channels as input
\* channels or with the depth of the layers, and the weights given as a
\* list of tensors or drawn by an initializer.
HexagonalFilters ==
    /\ calls < MaxCalls
    /\ \E scope \in FilterScopes :
       \E in_channels \in 1..MaxChannels :
       \E out_channels \in {in_channels, MaxChannels} :
       \E init \in {Initializer("list", "drawn", <<in_channels, out_channels>>),
                    Initializer("fn", "redrawn", <<>>)} :
          Called(FiltersGraph(
                    hexagonal_filters(store, scope, in_channels, out_channels, init),
                    scope, in_channels, out_channels, init))

\* build_skip_ffnn as BuildBoardEmbeddings calls it: under "board_kernel",
\* with skip_also_output set; the hidden layers and the embedding have
\* MaxUnits units.
BuildSkipFfnn ==
    /\ calls < MaxCalls
    /\ \E input_width \in 1..MaxUnits :
       \E num_hidden_layers \in 0..MaxHidden :
          Called(FfnnGraph(
                    build_skip_ffnn(store, BoardKernelScope, input_width,
                                    num_hidden_layers, MaxUnits, TRUE, MaxUnits,
                                    "relu", Initializer("fn", "redrawn", <<>>)),
                    BoardKernelScope, input_width, num_hidden_layers,
                    MaxUnits, TRUE, MaxUnits, "relu"))

BuildNext == HexagonalFilters \/ BuildSkipFfnn

BuildSpec == BuildInit /\ [][BuildNext]_vars

(***************************************************************************)
(* One call of hexagonal_filters in a graph of its own, as in              *)
(* test_hexagonal_filters, the evaluations of the filters it returned and  *)
(* the steps of the optimizer.                                             *)
(***************************************************************************)
FiltersTest ==
    /\ hx = None
    /\ \E in_channels \in 1..MaxChannels :
       \E out_channels \in 1..MaxChannels :
       \E init \in Initializers(in_channels, out_channels) :
          Called(FiltersGraph(
                    hexagonal_filters(store, RootScope, in_channels,
                                      out_channels, init),
                    RootScope, in_channels, out_channels, init))

\* sess.run(hex_filters)
RunFilters ==
    /\ hx # None
    /\ hx.kind = "filters"
    /\ hx.err = ""
    /\ got = None
    /\ got' = [kind |-> "filters",
               filters |-> [i \in 1..2 |-> FilterValue(hx.filters[i], store)]]
    /\ UNCHANGED <<store, hexagonal_map, hx>>
    /\ UNCHANGED smVars
    /\ UNCHANGED headVars
    /\ UNCHANGED passVars

\* A step of the optimizer moves the value of a weight; what the session
\* evaluated before is out of date.
OptimizerStep ==
    /\ steps < MaxSteps
    /\ \E h \in 1..Len(store) :
       \E i \in DOMAIN store[h].at :
          store' = [store EXCEPT ![h].at[i] = @ + MILLI]
    /\ steps' = steps + 1
    /\ got' = None
    /\ UNCHANGED <<hexagonal_map, hx, calls>>
    /\ UNCHANGED smVars
    /\ UNCHANGED headVars

FiltersNext == FiltersTest \/ RunFilters \/ OptimizerStep

FiltersSpec == BuildInit /\ [][FiltersNext]_vars

(***************************************************************************)
(* Properties of hexagonal_filters.                                        *)
(***************************************************************************)
FiltersRan == hx # None /\ hx.kind = "filters" /\ got # None

\* Entry (r, c) of the evaluated filter idx, between channels ci and co.
Kernel(idx, r, c, ci, co) == got.filters[idx + 1].at[<<r, c, ci, co>>]

\* Row r of the side column of weight k in filter idx.
SideTap(idx, k, r, ci, co) ==
    IF idx = 0
    THEN (IF r < 2 THEN Weight(k, r, ci, co) ELSE 0)
    ELSE (IF r > 0 THEN Weight(k, r - 1, ci, co) ELSE 0)

KernelRows(idx) ==
    [r \in 1..3 |-> [c \in 1..3 |-> Kernel(idx, r - 1, c - 1, 0, 0)]]

\* The weights of test_hexagonal_filters, in thousandths.
TestWeights ==
    /\ hx.in_channels = 1 /\ hx.out_channels = 1
    /\ [r \in 1..3 |-> Weight(1, r - 1, 0, 0)] = <<1, 1000, 1>>
    /\ [r \in 1..2 |-> Weight(2, r - 1, 0, 0)] = <<2, 2>>
    /\ [r \in 1..2 |-> Weight(3, r - 1, 0, 0)] = <<3, 3>>

\* C6: hexagonal_filters returns two 3x3 kernels; the even one has the
\* columns [left0, left1, 0], [c0, c1, c2], [right0, right1, 0], the odd one
\* [0, left0, left1], [c0, c1, c2], [0, right0, right1]; for the weights of
\* the test they are the two matrices the test expects.
C6_FilterLayout ==
    FiltersRan =>
        /\ Len(hx.filters) = 2
        /\ \A idx \in 0..1 :
            /\ got.filters[idx + 1].shape
                    = <<3, 3, hx.in_channels, hx.out_channels>>
            /\ \A r \in 0..2 :
               \A ci \in 0..(hx.in_channels - 1) :
               \A co \in 0..(hx.out_channels - 1) :
                    /\ Kernel(idx, r, 0, ci, co) = SideTap(idx, 2, r, ci, co)
                    /\ Kernel(idx, r, 1, ci, co) = Weight(1, r, ci, co)
                    /\ Kernel(idx, r, 2, ci, co) = SideTap(idx, 3, r, ci, co)
        /\ TestWeights =>
            /\ KernelRows(0) = <<<<2, 1, 3>>, <<2, 1000, 3>>, <<0, 1, 0>>>>
            /\ KernelRows(1) = <<<<0, 1, 0>>, <<2, 1000, 3>>, <<2, 1, 3>>>>

C6_Witness ==
    /\ FiltersRan
    /\ TestWeights
    /\ hx.initializer.profile = "filters_test"

\* C7: the two kernels of one call read the same weights: the center columns
\* are equal in the three rows, rows 0 and 1 of a side column of the even
\* kernel are rows 1 and 2 of that column of the odd kernel, and both show
\* the values the weights have now, also after the optimizer moved them.
C7_KernelsTied ==
    FiltersRan =>
        \A ci \in 0..(hx.in_channels - 1) :
        \A co \in 0..(hx.out_channels - 1) :
            /\ \A r \in 0..2 :
                /\ Kernel(0, r, 1, ci, co) = Kernel(1, r, 1, ci, co)
                /\ Kernel(0, r, 1, ci, co) = Weight(1, r, ci, co)
            /\ \A k \in 2..3 :
               \A r \in 0..1 :
                /\ Kernel(0, r, 2 * (k - 2), ci, co)
                        = Kernel(1, r + 1, 2 * (k - 2), ci, co)
                /\ Kernel(0, r, 2 * (k - 2), ci, co) = Weight(k, r, ci, co)

\* The filters evaluated after the optimizer moved left0 of the drawn weights.
C7_Witness ==
    /\ FiltersRan
    /\ steps > 0
    /\ Weight(2, 0, 0, 0) = 7000 + MILLI
    /\ Weight(2, 1, 0, 0) = -11000

(***************************************************************************)
(* Properties of the allocation of the weights.                            *)
(***************************************************************************)
\* The key of a variable: the scope it was created under.
KeyOf(name) == SubSeq(name, 1, Len(name) - 1)

KeysUsed(st) == {KeyOf(st[h].name) : h \in 1..Len(st)}

IsCall == calls' = calls + 1

\* The handles the store holds for the weights `names` of key.
Stored(st, key, names) == [k \in 1..Len(names) |-> Find(st, Append(key, names[k]))]

FilterNames == <<"hex_filter_center", "hex_filter_left", "hex_filter_right">>

DenseNames == <<"kernel", "bias">>

LinearKey(key) == Append(key, "linear")

\* The call leaves the variables of the store as they are, and creates none
\* under a key the store has used.
NothingFurther ==
    /\ Len(store') >= Len(store)
    /\ \A h \in 1..Len(store) : store'[h] = store[h]
    /\ \A h \in (Len(store) + 1)..Len(store') :
            KeyOf(store'[h].name) \notin KeysUsed(store)

\* The width of the input of dense layer ii of the call hx', ii counted
\* from 0, the embedding layer being the last.
WidthInto(ii) ==
    IF ii = 0 THEN hx'.input_width
    ELSE hx'.num_hidden_layers_nodes + hx'.input_width

UnitsOf(ii) ==
    IF ii = hx'.num_hidden_layers - 1 THEN hx'.output_embedding_dim
    ELSE hx'.num_hidden_layers_nodes

DenseKey(ii) ==
    Append(hx'.scope.path,
           IF ii = hx'.num_hidden_layers - 1 THEN "embedding_layer"
           ELSE "hidden_" \o ToString(ii))

\* The used keys of the call hx' hold the shapes the call asks for.
FiltersFitStore ==
    store[Find(store, Append(hx'.scope.path, "hex_filter_center"))].shape
        = <<3, 1, hx'.in_channels, hx'.out_channels>>

FfnnFitsStore ==
    \A ii \in 0..(hx'.num_hidden_layers - 1) :
        LinearKey(DenseKey(ii)) \in KeysUsed(store) =>
            store[Find(store, Append(LinearKey(DenseKey(ii)), "kernel"))].shape
                = <<WidthInto(ii), UnitsOf(ii)>>

FiltersCallIdempotent ==
    (hx'.kind = "filters" /\ hx'.scope.path \in KeysUsed(store)) =>
        /\ store' = store
        /\ hx'.err = "" <=> (hx'.scope.reuse = "AUTO_REUSE" /\ FiltersFitStore)
        /\ hx'.err = "" =>
                hx'.weights = Stored(store, hx'.scope.path, FilterNames)

FfnnCallIdempotent ==
    hx'.kind = "ffnn" =>
        /\ hx'.err = "" <=> FfnnFitsStore
        /\ \A n \in 1..Len(hx'.layers) :
                LinearKey(hx'.layers[n].key) \in KeysUsed(store) =>
                    hx'.layers[n].weights
                        = Stored(store, LinearKey(hx'.layers[n].key), DenseNames)

OneGroupPerKey ==
    \A h \in 1..Len(store) :
    \A g \in 1..Len(store) :
        store[h].name = store[g].name => h = g

\* C10, as the spec states it: every call of hexagonal_filters under a used
\* key returns the weights the first call created.
C10_UsedKeyReturnsFirst ==
    [][(IsCall /\ hx'.kind = "filters" /\ hx'.scope.path \in KeysUsed(store)) =>
            /\ hx'.err = ""
            /\ hx'.weights = Stored(store, hx'.scope.path, FilterNames)
            /\ store' = store]_vars

\* C10: a call of hexagonal_filters, or of a dense layer of build_skip_ffnn,
\* under a used key creates no further variable for the key and leaves the
\* existing ones unchanged; it returns the variables the first call created
\* when its scope reuses variables and it asks for the shapes they have, and
\* raises otherwise; the store never holds two variables of one name.
C10_AllocationIdempotent ==
    /\ []OneGroupPerKey
    /\ [][IsCall =>
            /\ NothingFurther
            /\ FiltersCallIdempotent
            /\ FfnnCallIdempotent]_vars

\* Both kinds of call have been made twice under one key: the second call
\* of hexagonal_filters returned the group of the first, and so did the
\* dense layers of the second build_skip_ffnn.
C10_Witness ==
    /\ calls = 2
    /\ hx # None
    /\ hx.err = ""
    /\ \/ /\ hx.kind = "filters"
          /\ Len(store) = 3
          /\ hx.weights = <<1, 2, 3>>
          /\ hx.initializer.profile = "redrawn"
          /\ store[1].at[<<0, 0, 0, 0>>] = 2000
       \/ /\ hx.kind = "ffnn"
          /\ Len(hx.layers) = 2
          /\ Len(store) = 4
          /\ hx.layers[2].weights = <<3, 4>>

(***************************************************************************)
(* One call of build_skip_ffnn in a graph of its own.                      *)
(***************************************************************************)
FfnnTest ==
    /\ hx = None
    /\ \E input_width \in 1..MaxUnits :
       \E num_hidden_layers \in 0..MaxHidden :
       \E num_hidden_layers_nodes \in 1..MaxUnits :
       \E output_embedding_dim \in 1..MaxUnits :
       \E skip_also_output \in BOOLEAN :
       \E activation \in Activations :
       \E init \in {Initializer("fn", p, <<>>) : p \in {"drawn", "redrawn"}} :
          Called(FfnnGraph(
                    build_skip_ffnn(store, BoardKernelScope, input_width,
                                    num_hidden_layers, num_hidden_layers_nodes,
                                    skip_also_output, output_embedding_dim,
                                    activation, init),
                    BoardKernelScope, input_width, num_hidden_layers,
                    num_hidden_layers_nodes, skip_also_output,
                    output_embedding_dim, activation))

FfnnNext == FfnnTest

FfnnSpec == BuildInit /\ [][FfnnNext]_vars

(***************************************************************************)
(* Properties of build_skip_ffnn.                                          *)
(***************************************************************************)
FfnnBuilt == hx # None /\ hx.kind = "ffnn" /\ hx.err = ""

\* The key of layer n of the H layers of the call, n counted from 1.
LayerKey(n) ==
    Append(hx.scope.path,
           IF n = hx.num_hidden_layers THEN "embedding_layer"
           ELSE "hidden_" \o ToString(n - 1))

\* The tensor after n rounds of a hidden layer and the concatenation of the
\* input.
RECURSIVE HiddenRounds(_)
HiddenRounds(n) ==
    IF n = 0 THEN InputTensor
    ELSE [op |-> "concat",
          parts |-> <<[op |-> "dense", key |-> LayerKey(n),
                       units |-> hx.num_hidden_layers_nodes,
                       activation |-> hx.activation,
                       inputs |-> HiddenRounds(n - 1)],
                      InputTensor>>]

EmbeddingOver(t) ==
    [op |-> "dense", key |-> LayerKey(hx.num_hidden_layers),
     units |-> hx.output_embedding_dim, activation |-> hx.activation,
     inputs |-> t]

\* C11: for H > 0 build_skip_ffnn makes H dense layers: H - 1 hidden layers
\* of W units, each followed by the concatenation of the input, so that the
\* first layer reads D columns and the others W + D, then a layer of E units
\* with the activation; the result has E + D columns when skip_also_output
\* is set and E otherwise.
C11_SkipFfnnStructure ==
    (FfnnBuilt /\ hx.num_hidden_layers > 0) =>
        /\ Len(hx.layers) = hx.num_hidden_layers
        /\ Len(store) = 2 * hx.num_hidden_layers
        /\ \A n \in 1..hx.num_hidden_layers :
            /\ hx.layers[n].key = LayerKey(n)
            /\ hx.layers[n].activation = hx.activation
            /\ hx.layers[n].units =
                    (IF n = hx.num_hidden_layers THEN hx.output_embedding_dim
                     ELSE hx.num_hidden_layers_nodes)
            /\ hx.layers[n].in_width =
                    (IF n = 1 THEN hx.input_width
                     ELSE hx.num_hidden_layers_nodes + hx.input_width)
            /\ store[hx.layers[n].weights[1]].shape
                    = <<hx.layers[n].in_width, hx.layers[n].units>>
            /\ store[hx.layers[n].weights[2]].shape = <<hx.layers[n].units>>
        /\ hx.logits =
                (IF hx.skip_also_output
                 THEN [op |-> "concat",
                       parts |-> <<EmbeddingOver(HiddenRounds(hx.num_hidden_layers - 1)),
                                   InputTensor>>]
                 ELSE EmbeddingOver(HiddenRounds(hx.num_hidden_layers - 1)))
        /\ hx.width = hx.output_embedding_dim
                        + (IF hx.skip_also_output THEN hx.input_width ELSE 0)

\* A stack of two hidden layers and the embedding, the three widths all
\* different, has been built without the last concatenation.
C11_Witness ==
    /\ FfnnBuilt
    /\ hx.num_hidden_layers = 3
    /\ hx.input_width = 1
    /\ hx.num_hidden_layers_nodes = 2
    /\ hx.output_embedding_dim = 1
    /\ ~hx.skip_also_output
    /\ hx.layers[3].in_width = 3

\* C12: with num_hidden_layers = 0 build_skip_ffnn returns its input, of D
\* columns, whatever skip_also_output is, and creates no variable.
C12_NoLayersIsIdentity ==
    (hx # None /\ hx.kind = "ffnn" /\ hx.num_hidden_layers = 0) =>
        /\ hx.err = ""
        /\ hx.logits = InputTensor
        /\ hx.width = hx.input_width
        /\ hx.layers = <<>>
        /\ store = EmptyStore

C12_Witness ==
    /\ FfnnBuilt
    /\ hx.num_hidden_layers = 0
    /\ hx.skip_also_output
    /\ hx.input_width = 2

(***************************************************************************)
(* The inputs of the softmax specification.                                *)
(***************************************************************************)
ScoreValues == {-(20 * ONE), -(ONE \div 3), 2 * ONE}

SeqsUpTo(S, n) == UNION {[1..k -> S] : k \in 1..n}

SoftmaxInit ==
    /\ logits \in SeqsUpTo(ScoreValues, MaxItems)
    /\ indices \in [1..Len(logits) -> 0..MaxGroupId]
    /\ sm = None
    /\ store = EmptyStore /\ hexagonal_map = None /\ hx = None /\ got = None
    /\ calls = 0 /\ steps = 0
    /\ HeadIdle

SparseLogSoftMax ==
    /\ sm = None
    /\ sm' = sparse_log_soft_max(logits, indices)
    /\ UNCHANGED <<logits, indices>>
    /\ UNCHANGED hexVars
    /\ UNCHANGED passVars
    /\ UNCHANGED headVars

SoftmaxNext == SparseLogSoftMax

SoftmaxSpec == SoftmaxInit /\ [][SoftmaxNext]_vars

\* The inputs of the regrouping specification: every arrangement of the
\* group ids, over two scores.
RegroupScores == {-(ONE \div 3), 2 * ONE}

RegroupInit ==
    /\ logits \in SeqsUpTo(RegroupScores, MaxItems)
    /\ indices \in [1..Len(logits) -> 0..MaxGroupId]
    /\ sm = None
    /\ store = EmptyStore /\ hexagonal_map = None /\ hx = None /\ got = None
    /\ calls = 0 /\ steps = 0
    /\ HeadIdle

RegroupSpec == RegroupInit /\ [][SoftmaxNext]_vars

Built == sm # None

(***************************************************************************)
(* Properties of sparse_log_soft_max.                                      *)
(***************************************************************************)
\* 1e-5
Tolerance == ONE \div 100000

NonEmptyGroups == {g \in GroupIds(indices) : Members(indices, g) # {}}

\* The sum over the items of group g of exp(output).
ExpSum(g) ==
    SumOver([i \in Items(logits) |-> FExp(sm.out[i])], Members(indices, g))

\* C1: for every group that has an item, the exponentials of the outputs of
\* its items sum to 1 within 1e-5.
C1_GroupProbabilitiesSumToOne ==
    Built => \A g \in NonEmptyGroups : Abs(ExpSum(g) - ONE) <= Tolerance

\* A group of several items with different scores, beside another group,
\* has been normalised.
C1_Witness ==
    /\ Built
    /\ \E g \in NonEmptyGroups :
          /\ \E i, j \in Members(indices, g) : logits[i] # logits[j]
          /\ NonEmptyGroups # {g}
          /\ ExpSum(g) # 0

ShiftValues == {-(5 * ONE), 7 * ONE + ONE \div 3}

\* The scores with c added to every score of group g.
ShiftGroup(xs, idx, g, c) ==
    AsSeq([i \in Items(xs) |-> IF idx[i] = g THEN xs[i] + c ELSE xs[i]])

\* C2: adding a constant to every score of one group leaves the output of
\* every item, of that group and of the others, unchanged.
C2_ShiftInvariant ==
    Built => \A g \in NonEmptyGroups : \A c \in ShiftValues :
                sparse_log_soft_max(ShiftGroup(logits, indices, g, c), indices).out
                    = sm.out

\* Two groups have been normalised, one of them with several items, and a
\* shift of that one moves its maximum.
C2_Witness ==
    /\ Built
    /\ \E g \in NonEmptyGroups :
          /\ Cardinality(Members(indices, g)) >= 2
          /\ NonEmptyGroups # {g}
          /\ \E c \in ShiftValues : \E i \in Members(indices, g) :
                sparse_log_soft_max(ShiftGroup(logits, indices, g, c),
                                    indices).logits_max[i] # sm.logits_max[i]

\* The array xs with item p[i] at place i.
\* The array xs with the items at the places i and i + 1 exchanged.
Swapped(xs, i) ==
    AsSeq([k \in Items(xs) |->
              IF k = i THEN xs[i + 1] ELSE IF k = i + 1 THEN xs[i] ELSE xs[k]])

\* C13: the output of an item depends on its score and on the scores of the
\* items of its group, not on their places: exchanging two neighbouring
\* items, scores and group ids alike, exchanges their outputs and changes
\* no other.  The exchanges of neighbours generate every permutation, and
\* every array of scores and group ids is an input, so the outputs follow
\* any permutation of the inputs.
C13_PermutationEquivariant ==
    Built => \A i \in 1..(Len(logits) - 1) :
                sparse_log_soft_max(Swapped(logits, i), Swapped(indices, i)).out
                    = Swapped(sm.out, i)

\* Two groups interleaved, one of them with two different scores, have been
\* normalised.
C13_Witness ==
    /\ Built
    /\ Len(logits) = 3
    /\ indices[1] = indices[3]
    /\ indices[2] # indices[1]
    /\ logits[1] # logits[3]
    /\ sm.out[1] # sm.out[3]

EmptyGroups == {g \in GroupIds(indices) : Members(indices, g) = {}}

\* C14: a group id below the largest one that no item carries changes no
\* output: the outputs are those of the same scores with the group ids
\* renumbered without the gap, and the logarithm of the empty sum of such a
\* group, minus infinity, is in no item's output.
C14_EmptyGroupIgnored ==
    Built =>
        /\ sparse_log_soft_max(logits, Compacted(indices)).out = sm.out
        /\ \A g \in EmptyGroups :
            /\ sm.normalized_exp_sum[g] = 0
            /\ sm.log_exp_sum[g] = NegInf
        /\ \A i \in Items(logits) :
            /\ indices[i] \notin EmptyGroups
            /\ IsFinite(sm.out[i])
            /\ sm.out[i] = FSub(sm.normalized_logits[i],
                                sm.log_exp_sum[indices[i]])

\* Scores of the groups 0 and 2, none of group 1, have been normalised.
C14_Witness ==
    /\ Built
    /\ EmptyGroups = {1}
    /\ \E i, j \in Items(logits) :
          indices[i] = 2 /\ indices[j] = 2 /\ logits[i] # logits[j]
    /\ Compacted(indices) # indices

\* C19: the value subtracted from a score is the maximum of the scores of
\* the item's own group, so every shifted score, the argument of exp, is at
\* most 0, every group with an item has an item whose shifted score is 0,
\* and its sum of exponentials is between 1 and the number of its items.
C19_OwnGroupMaximum ==
    Built =>
        /\ \A i \in Items(logits) :
            /\ \A j \in Members(indices, indices[i]) : logits[j] <= sm.logits_max[i]
            /\ \E j \in Members(indices, indices[i]) : logits[j] = sm.logits_max[i]
            /\ sm.normalized_logits[i] = logits[i] - sm.logits_max[i]
            /\ sm.normalized_logits[i] <= 0
            /\ sm.normalized_exp_values[i] = FExp(sm.normalized_logits[i])
        /\ \A g \in NonEmptyGroups :
            /\ \E i \in Members(indices, g) : sm.normalized_logits[i] = 0
            /\ sm.normalized_exp_sum[g] >= ONE
            /\ sm.normalized_exp_sum[g] <= Cardinality(Members(indices, g)) * ONE

\* A group of negative scores only, two of them different, beside a group
\* that holds the largest score of the array.
C19_Witness ==
    /\ Built
    /\ \E g \in NonEmptyGroups :
          /\ \A i \in Members(indices, g) : logits[i] < 0
          /\ \E i, j \in Members(indices, g) : logits[i] < logits[j]
          /\ \E k \in Items(logits) : indices[k] # g /\ logits[k] > 0
          /\ \E i \in Members(indices, g) : sm.normalized_logits[i] = 0

\* The items that are alone in their group.
Singletons == {i \in Items(logits) : Members(indices, indices[i]) = {i}}

\* C3: the only item of a group gets the output 0, exactly.
C3_SingletonIsZero ==
    Built => \A i \in Singletons : sm.out[i] = 0

\* An item alone in its group, with a score that is neither 0 nor the
\* largest of the array, has been normalised.
C3_Witness ==
    /\ Built
    /\ \E i \in Singletons :
          /\ logits[i] # 0
          /\ \E j \in Items(logits) : logits[j] > logits[i]
          /\ sm.out[i] = 0

(***************************************************************************)
(* sparse_cross_entropy_loss                                               *)
(***************************************************************************)
\* a * b on finite floats of either sign.
FMul(a, b) ==
    IF (a < 0) = (b < 0) THEN MulFix(Abs(a), Abs(b)) ELSE -MulFix(Abs(a), Abs(b))

\* The loss with the sign of the log-probabilities kept.
sparse_cross_entropy_loss_signed(log_probs, lbls) ==
    [i \in Items(log_probs) |-> FMul(lbls[i], log_probs[i])]

\* labels * -log_probs, elementwise.
sparse_cross_entropy_loss(log_probs, lbls) ==
    [i \in Items(log_probs) |-> FMul(lbls[i], -log_probs[i])]

(***************************************************************************)
(* The loss specification: the log-probabilities of the scores are built,  *)
(* then the loss of the labels against them.                               *)
(***************************************************************************)
MaxLabelled == 2

LabelValues == {0, ONE \div 4, ONE}

LossInit ==
    /\ logits \in SeqsUpTo(ScoreValues, MaxLabelled)
    /\ indices \in [1..Len(logits) -> 0..MaxGroupId]
    /\ labels \in [1..Len(logits) -> LabelValues]
    /\ sm = None /\ loss = <<>>
    /\ board_raw_predictions = <<>> /\ board_predictions = None
    /\ store = EmptyStore /\ hexagonal_map = None /\ hx = None /\ got = None
    /\ calls = 0 /\ steps = 0

SparseCrossEntropyLoss ==
    /\ sm # None
    /\ loss = <<>>
    /\ loss' = sparse_cross_entropy_loss(sm.out, labels)
    /\ UNCHANGED <<labels, board_raw_predictions, board_predictions>>
    /\ UNCHANGED smVars
    /\ UNCHANGED hexVars
    /\ UNCHANGED passVars

LossNext == SparseLogSoftMax \/ SparseCrossEntropyLoss

LossSpec == LossInit /\ [][LossNext]_vars

LossBuilt == loss # <<>>

\* C15: the loss of every item is its label times minus its
\* log-probability, of that item alone; so an item with label 0 has loss 0,
\* and with labels in [0, 1] and log-probabilities at most 0 no loss is
\* negative.
C15_PerItemLoss ==
    LossBuilt =>
        /\ DOMAIN loss = Items(labels)
        /\ \A i \in Items(labels) :
            /\ loss[i] = FMul(labels[i], -sm.out[i])
            /\ labels[i] = 0 => loss[i] = 0
        /\ ((\A i \in Items(labels) : labels[i] >= 0 /\ labels[i] <= ONE /\ sm.out[i] <= 0)
                => \A i \in Items(labels) : loss[i] >= 0)

\* The loss of two items of one group has been built: one has label 0 and a
\* log-probability below 0, the other a positive label and a positive loss.
C15_Witness ==
    /\ LossBuilt
    /\ \E i, j \in Items(labels) :
          /\ indices[i] = indices[j]
          /\ labels[i] = 0 /\ sm.out[i] < 0 /\ loss[i] = 0
          /\ labels[j] > 0 /\ labels[j] < ONE /\ sm.out[j] < 0 /\ loss[j] > 0

(***************************************************************************)
(* sigmoid_to_max                                                          *)
(***************************************************************************)
\* n / 10 as a float, for an integer n of either sign.
Tenths(n) ==
    IF n < 0 THEN -((((-n) \div 10) * ONE) + (((-n) % 10) * ONE) \div 10)
    ELSE ((n \div 10) * ONE) + ((n % 10) * ONE) \div 10

MAX_Q_VALUE == Tenths(100)
MAX_Q_LINEAR_VALUE == Tenths(98)
DEFAULT_SMOOTHNESS == Tenths(40)

\* a / b on finite floats, 0 < b, |a / b| < 128.
FDiv(a, b) ==
    IF a < 0 THEN -(((-a) \div b) * ONE + DivFix((-a) % b, b))
    ELSE (a \div b) * ONE + DivFix(a % b, b)

\* 1 / (1 + exp(z)), which falls as z grows.
SigmoidFalling(z) ==
    LET e == FExp(z)
    IN  IF e = PosInf THEN 0 ELSE FDiv(ONE, ONE + e)

\* tf.sigmoid: 1 / (1 + exp(-z)).
Sigmoid(z) ==
    LET e == FExp(-z)
    IN  IF e = PosInf THEN 0 ELSE FDiv(ONE, ONE + e)

\* The sign of the magnitude, never negative.
SignOfAbs(v) == IF v = 0 THEN 0 ELSE 1

\* tf.sign
Sign(v) == IF v > 0 THEN 1 ELSE IF v < 0 THEN -1 ELSE 0

\* abs_x >= threshold
GreaterEqual(a, b) == a >= b

\* abs_x > threshold
Greater(a, b) == a > b

\* tf.where(mask, a, b)
Where(mask, a, b) == [i \in DOMAIN mask |-> IF mask[i] THEN a[i] ELSE b[i]]

\* The three values the code names sigmoid in turn are sigmoid, scaled and
\* signed here.
sigmoid_to_max(x, absolute_max, linear_threshold, smoothness) ==
    LET abs_x == [i \in Items(x) |-> Abs(x[i])]
        threshold == linear_threshold
        mask == [i \in Items(x) |-> Greater(abs_x[i], threshold)]
        sigmoid == [i \in Items(x) |-> Sigmoid(FDiv(abs_x[i] - threshold, smoothness))]
        scaled == [i \in Items(x) |->
                     threshold + FMul(2 * (sigmoid[i] - ONE \div 2), absolute_max - threshold)]
        signed == [i \in Items(x) |-> Sign(x[i]) * scaled[i]]
    IN  [kind |-> "built",
         absolute_max |-> absolute_max,
         linear_threshold |-> linear_threshold,
         smoothness |-> smoothness,
         mask |-> mask,
         sigmoid |-> signed,
         out |-> Where(mask, signed, x)]

(***************************************************************************)
(* The prediction specification: sigmoid_to_max on an array of raw         *)
(* predictions, with its defaults and with other parameters.               *)
(***************************************************************************)
MaxPredictions == 2

\* The array of test_sigmoid_to_max.
TestPredictions == <<Tenths(98), Tenths(-120), Tenths(150), Tenths(-32)>>

RawValues ==
    {Tenths(n) : n \in {0, -32, 98, -98, -120, 120, 150, 1000, -1000, 1200}}

Defaults ==
    [absolute_max |-> MAX_Q_VALUE, linear_threshold |-> MAX_Q_LINEAR_VALUE,
     smoothness |-> DEFAULT_SMOOTHNESS]

\* The defaults, a steeper curve with a wider tail, and a threshold above
\* the maximum.
Parameters ==
    {Defaults,
     [absolute_max |-> Tenths(50), linear_threshold |-> Tenths(10), smoothness |-> Tenths(10)],
     [absolute_max |-> Tenths(50), linear_threshold |-> MAX_Q_LINEAR_VALUE,
      smoothness |-> DEFAULT_SMOOTHNESS]}

PredictionInit ==
    /\ board_raw_predictions \in SeqsUpTo(RawValues, MaxPredictions) \cup {TestPredictions}
    /\ board_predictions = None
    /\ labels = <<>> /\ loss = <<>>
    /\ SoftmaxIdle
    /\ store = EmptyStore /\ hexagonal_map = None /\ hx = None /\ got = None
    /\ calls = 0 /\ steps = 0

SigmoidToMax ==
    /\ board_predictions = None
    /\ \E p \in Parameters :
          board_predictions' = sigmoid_to_max(board_raw_predictions, p.absolute_max,
                                              p.linear_threshold, p.smoothness)
    /\ UNCHANGED <<labels, loss, board_raw_predictions>>
    /\ UNCHANGED smVars
    /\ UNCHANGED hexVars
    /\ UNCHANGED passVars

PredictionNext == SigmoidToMax

PredictionSpec == PredictionInit /\ [][PredictionNext]_vars

Predicted == board_predictions # None

\* The call was made with the defaults of sigmoid_to_max.
WithDefaults ==
    /\ board_predictions.absolute_max = MAX_Q_VALUE
    /\ board_predictions.linear_threshold = MAX_Q_LINEAR_VALUE
    /\ board_predictions.smoothness = DEFAULT_SMOOTHNESS

\* The raw prediction i is beyond the threshold.
Beyond(i) == Abs(board_raw_predictions[i]) > board_predictions.linear_threshold

\* C16: a raw prediction whose magnitude is at most the threshold, the
\* threshold itself included, is returned unchanged, and the mask selects
\* the sigmoid exactly for the magnitudes strictly above the threshold; with
\* the defaults 9.8 and -3.2 are returned as they are.
C16_LinearRangeUnchanged ==
    Predicted =>
        \A i \in Items(board_raw_predictions) :
            /\ board_predictions.mask[i] = Beyond(i)
            /\ ~Beyond(i) => board_predictions.out[i] = board_raw_predictions[i]
            /\ (WithDefaults /\ board_raw_predictions[i] \in {Tenths(98), Tenths(-32)})
                  => board_predictions.out[i] = board_raw_predictions[i]

\* The array of the test has been passed with the defaults: 9.8 and -3.2
\* come back unchanged, -12 and 15 do not.
C16_Witness ==
    /\ Predicted
    /\ WithDefaults
    /\ board_raw_predictions = TestPredictions
    /\ board_predictions.out[1] = Tenths(98)
    /\ board_predictions.out[4] = Tenths(-32)
    /\ board_predictions.out[2] # Tenths(-120)
    /\ board_predictions.out[3] # Tenths(150)

\* The call was made with a threshold below the maximum.
ThresholdBelowMax == board_predictions.linear_threshold < board_predictions.absolute_max

\* The raw prediction i is at most 8 times the smoothness beyond the
\* threshold: the sigmoid of its excess is well below 1.
Moderate(i) ==
    Abs(board_raw_predictions[i]) - board_predictions.linear_threshold
        <= 8 * board_predictions.smoothness

\* C17, as the specification states it: every output is strictly between
\* -absolute_max and absolute_max.
C17_StrictlyInside ==
    (Predicted /\ ThresholdBelowMax) =>
        \A i \in Items(board_raw_predictions) :
            /\ board_predictions.out[i] > -board_predictions.absolute_max
            /\ board_predictions.out[i] < board_predictions.absolute_max

\* C17: with a threshold below the maximum every output is between
\* -absolute_max and absolute_max, the two ends included, and has the sign
\* of its input; it is strictly inside for an input at most 8 times the
\* smoothness beyond the threshold, the output for -12 being above -10 and
\* the output for 15 below 10 with the defaults.
C17_WithinMaximum ==
    (Predicted /\ ThresholdBelowMax) =>
        \A i \in Items(board_raw_predictions) :
            /\ board_predictions.out[i] >= -board_predictions.absolute_max
            /\ board_predictions.out[i] <= board_predictions.absolute_max
            /\ (board_predictions.out[i] > 0) = (board_raw_predictions[i] > 0)
            /\ (board_predictions.out[i] < 0) = (board_raw_predictions[i] < 0)
            /\ Moderate(i) =>
                  /\ board_predictions.out[i] > -board_predictions.absolute_max
                  /\ board_predictions.out[i] < board_predictions.absolute_max
            /\ (WithDefaults /\ board_raw_predictions[i] = Tenths(-120))
                  => board_predictions.out[i] > -MAX_Q_VALUE
            /\ (WithDefaults /\ board_raw_predictions[i] = Tenths(150))
                  => board_predictions.out[i] < MAX_Q_VALUE

\* With the defaults, -12 has been brought strictly above -10 and 100 to
\* the maximum itself.
C17_Witness ==
    /\ Predicted
    /\ WithDefaults
    /\ \E i, j \in Items(board_raw_predictions) :
          /\ board_raw_predictions[i] = Tenths(-120)
          /\ board_predictions.out[i] > -MAX_Q_VALUE
          /\ board_predictions.out[i] < Tenths(-98)
          /\ board_raw_predictions[j] = Tenths(1000)
          /\ board_predictions.out[j] = MAX_Q_VALUE

\* C18, as the specification states it: of two inputs beyond the threshold
\* the one of smaller magnitude has the output of smaller magnitude.
C18_StrictTails ==
    (Predicted /\ ThresholdBelowMax) =>
        \A i, j \in Items(board_raw_predictions) :
            (Beyond(i) /\ Beyond(j)
                /\ Abs(board_raw_predictions[i]) < Abs(board_raw_predictions[j]))
              => Abs(board_predictions.out[i]) < Abs(board_predictions.out[j])

\* C18: with a threshold below the maximum the outputs are in the order of
\* the inputs, over the linear range, the threshold and both tails; of two
\* inputs beyond the threshold the one of smaller magnitude has an output
\* of no larger magnitude, of smaller magnitude when the larger input is at
\* most 8 times the smoothness beyond the threshold; with the defaults the
\* output for -12, negated, is below the output for 15.
C18_Monotonic ==
    (Predicted /\ ThresholdBelowMax) =>
        \A i, j \in Items(board_raw_predictions) :
            /\ board_raw_predictions[i] < board_raw_predictions[j]
                  => board_predictions.out[i] <= board_predictions.out[j]
            /\ (Beyond(i) /\ Beyond(j)
                    /\ Abs(board_raw_predictions[i]) < Abs(board_raw_predictions[j]))
                  => /\ Abs(board_predictions.out[i]) <= Abs(board_predictions.out[j])
                     /\ Moderate(j)
                           => Abs(board_predictions.out[i]) < Abs(board_predictions.out[j])
            /\ (WithDefaults /\ board_raw_predictions[i] = Tenths(-120)
                    /\ board_raw_predictions[j] = Tenths(150))
                  => -board_predictions.out[i] < board_predictions.out[j]

\* With the defaults, 100 and 120 have both been brought to the maximum.
C18_Witness ==
    /\ Predicted
    /\ WithDefaults
    /\ \E i, j \in Items(board_raw_predictions) :
          /\ board_raw_predictions[i] = Tenths(1000)
          /\ board_raw_predictions[j] = Tenths(1200)
          /\ board_predictions.out[i] = board_predictions.out[j]

(***************************************************************************)
(* The neighbours the graph of hexagonal_conv2d gives a cell.              *)
(***************************************************************************)
Cells(shape) == (0..(shape[2] - 1)) \X (0..(shape[3] - 1))

\* The cell the tap t of a 3x3 kernel reads for the output cell p, under
\* padding='SAME'.
TapCell(p, t) == <<p[1] + t[1] - 1, p[2] + t[2] - 1>>

\* The filter tf.where(selection_mask, even_out, odd_out) takes for the
\* column of cell p.
SelectedFilter(filters, shape, p) ==
    IF selection_mask(shape, <<0, p[1], p[2], 0>>) THEN filters[1] ELSE filters[2]

\* The taps of a filter that are rows of a variable.
VariableTaps(f) == {t \in Taps3x3 : f.taps[t[1] + 1][t[2] + 1] # ZeroTap}

\* The cells the side taps and the non-central center taps of the filter
\* selected for p read.
Neighbours(filters, shape, p) ==
    {TapCell(p, t) : t \in VariableTaps(SelectedFilter(filters, shape, p)) \ {<<1, 1>>}}

Interior(shape, p) ==
    /\ 0 < p[1] /\ p[1] < shape[2] - 1
    /\ 0 < p[2] /\ p[2] < shape[3] - 1

HexBuilt == hx # None /\ hx.kind \in {"conv", "layer"} /\ hx.err = ""

\* The value of a tap that is a row of a variable, between two channels.
TapValue(tap, st, ci, co) == st[tap.var].at[<<tap.row, 0, ci, co>>]

\* What output i takes through tap t of filter f from input channel ci.
TapTerm(f, st, map, i, t, ci) ==
    MulMilli(Padded(map, i[1], TapCell(<<i[2], i[3]>>, t)[1],
                    TapCell(<<i[2], i[3]>>, t)[2], ci),
             TapValue(f.taps[t[1] + 1][t[2] + 1], st, ci, i[4]))

\* What output i takes through the taps of filter f that are rows of a
\* variable.
TapSum(f, st, map, i) ==
    SumOver([u \in VariableTaps(f) \X (0..(map.shape[4] - 1)) |->
                TapTerm(f, st, map, i, u[1], u[2])],
            VariableTaps(f) \X (0..(map.shape[4] - 1)))

\* C20: the cells read for a cell by the side taps and the non-central
\* center taps of the filter selected for its column are a hexagonal
\* adjacency: a cell off the border has six different neighbours, all in
\* the grid, the cell above, the cell below, two in the column to its left
\* and two in the column to its right; and over the grid a cell is a
\* neighbour of another exactly when the other is a neighbour of it.  The
\* evaluated convolution reads the cell and these neighbours, and nothing
\* else.
C20_HexAdjacency ==
    HexBuilt =>
        /\ \A p \in Cells(hexagonal_map.shape) :
              Interior(hexagonal_map.shape, p) =>
                 /\ Cardinality(Neighbours(hx.filters, hexagonal_map.shape, p)) = 6
                 /\ \A q \in Neighbours(hx.filters, hexagonal_map.shape, p) :
                       /\ q \in Cells(hexagonal_map.shape)
                       /\ q # p
                 /\ {q \in Neighbours(hx.filters, hexagonal_map.shape, p) : q[2] = p[2]}
                       = {<<p[1] - 1, p[2]>>, <<p[1] + 1, p[2]>>}
                 /\ Cardinality({q \in Neighbours(hx.filters, hexagonal_map.shape, p) :
                                    q[2] = p[2] - 1}) = 2
                 /\ Cardinality({q \in Neighbours(hx.filters, hexagonal_map.shape, p) :
                                    q[2] = p[2] + 1}) = 2
        /\ \A p \in Cells(hexagonal_map.shape) :
              \A q \in Neighbours(hx.filters, hexagonal_map.shape, p)
                        \cap Cells(hexagonal_map.shape) :
                 p \in Neighbours(hx.filters, hexagonal_map.shape, q)
        /\ Ran =>
              \A i \in Idx4(got.mix.shape) :
                 got.mix.at[i]
                   = TapSum(SelectedFilter(hx.filters, hexagonal_map.shape, <<i[2], i[3]>>),
                            store, hexagonal_map, i)

\* A grid with cells off the border in an even and in an odd column has
\* been convolved: the two have their side neighbours in different rows.
C20_Witness ==
    /\ HexBuilt
    /\ Ran
    /\ Interior(hexagonal_map.shape, <<1, 1>>)
    /\ Interior(hexagonal_map.shape, <<1, 2>>)
    /\ <<2, 0>> \in Neighbours(hx.filters, hexagonal_map.shape, <<1, 1>>)
    /\ <<0, 1>> \in Neighbours(hx.filters, hexagonal_map.shape, <<1, 2>>)
    /\ <<0, 0>> \notin Neighbours(hx.filters, hexagonal_map.shape, <<1, 1>>)
    /\ <<2, 1>> \notin Neighbours(hx.filters, hexagonal_map.shape, <<1, 2>>)

(***************************************************************************)
(* The stacks of layers of a graph-building pass: the dense layers of      *)
(* build_skip_ffnn under "board_kernel" and the hexagonal layers of        *)
(* BuildFullBoardConvolutions, on one store of variables.                  *)
(***************************************************************************)
\* One pass of the loop of BuildFullBoardConvolutions: the layer g, built
\* on the output of the layers before it, joins the stack.
NextHexLayer(acc, g) ==
    [kind |-> "stack", err |-> g.err, store |-> g.store,
     layers |-> Append(acc.layers, g),
     shape |-> <<acc.shape[1], acc.shape[2], acc.shape[3], g.out_channels>>,
     in_channels |-> acc.in_channels]

\* for ii in range(FULL_BOARD_CONV_LAYERS), from ii on: hexagonal_layer
\* under hex_layer_ii, with FULL_BOARD_CONV_DEPTH channels and no
\* initializer; tf.nn.dropout leaves the shape as it is.  A layer that
\* raises ends the loop.
RECURSIVE BuildFullBoardConvolutions(_, _, _, _, _)
BuildFullBoardConvolutions(acc, ii, layers, activation, depth) ==
    IF ii >= layers \/ acc.err # "" THEN acc
    ELSE BuildFullBoardConvolutions(
            NextHexLayer(acc,
                hexagonal_layer(acc.store, HexLayerScope(ii), [shape |-> acc.shape],
                                activation, depth,
                                Initializer("none", "redrawn", <<>>))),
            ii + 1, layers, activation, depth)

\* BuildFullBoardConvolutions on a board of in_channels channels, with one
\* to MaxLayers layers of MaxChannels channels.
FullBoardConvolutions ==
    /\ calls < MaxCalls
    /\ \E in_channels \in 1..MaxChannels :
       \E layers \in 1..MaxLayers :
          Called(BuildFullBoardConvolutions(
                    [kind |-> "stack", err |-> "", store |-> store,
                     layers |-> <<>>,
                     shape |-> <<MaxBatch, MaxHeight, MaxWidth, in_channels>>,
                     in_channels |-> in_channels],
                    0, layers, "relu", MaxChannels))

StackNext == BuildSkipFfnn \/ FullBoardConvolutions

StackSpec == BuildInit /\ [][StackNext]_vars

StackBuilt == hx # None /\ hx.kind = "stack" /\ hx.err = ""

\* The handles of the weights of layer n of the last call.
WeightsOf(n) == {hx.layers[n].weights[k] : k \in 1..Len(hx.layers[n].weights)}

\* C21: the H dense layers of one build_skip_ffnn call with H > 0 are under
\* H different keys, hidden_0 ... hidden_{H-2} and embedding_layer, and no
\* two of them share a kernel or a bias; the layers of one stack of
\* hexagonal layers are under the keys hex_layer_0 ... hex_layer_{L-1},
\* each with a center, a left and a right weight of its own.
C21_DistinctKeys ==
    /\ (FfnnBuilt /\ hx.num_hidden_layers > 0) =>
          /\ Len(hx.layers) = hx.num_hidden_layers
          /\ \A n \in 1..Len(hx.layers) :
                /\ hx.layers[n].key =
                      Append(hx.scope.path,
                             IF n = hx.num_hidden_layers THEN "embedding_layer"
                             ELSE "hidden_" \o ToString(n - 1))
                /\ Cardinality(WeightsOf(n)) = 2
                /\ \A k \in 1..2 :
                      /\ hx.layers[n].weights[k] \in 1..Len(store)
                      /\ store[hx.layers[n].weights[k]].name
                            = Append(Append(hx.layers[n].key, "linear"), DenseNames[k])
          /\ \A m, n \in 1..Len(hx.layers) :
                m # n => /\ hx.layers[m].key # hx.layers[n].key
                         /\ WeightsOf(m) \cap WeightsOf(n) = {}
    /\ StackBuilt =>
          /\ Len(hx.layers) >= 1
          /\ \A n \in 1..Len(hx.layers) :
                /\ Cardinality(WeightsOf(n)) = 3
                /\ \A k \in 1..3 :
                      /\ hx.layers[n].weights[k] \in 1..Len(store)
                      /\ store[hx.layers[n].weights[k]].name
                            = <<"hex_layer_" \o ToString(n - 1), FilterNames[k]>>
          /\ \A m, n \in 1..Len(hx.layers) :
                m # n => WeightsOf(m) \cap WeightsOf(n) = {}

\* A stack of several hexagonal layers has been built in a graph that
\* holds the dense layers of a build_skip_ffnn call with two hidden layers
\* and the embedding layer.
C21_Witness ==
    /\ StackBuilt
    /\ Len(hx.layers) = MaxLayers
    /\ WeightsOf(1) # WeightsOf(MaxLayers)
    /\ \A key \in {"hidden_0", "hidden_1", "embedding_layer"} :
          Find(store, <<"board_kernel", key, "linear", "kernel">>) # 0

=============================================================================
